---- MODULE Spec2Model ----
(***************************************************************************)
(* Model of lib/vdsm/executor.py: Executor, _Worker and TaskQueue, with    *)
(* the external Scheduler reduced to its schedule/cancel contract.         *)
(*                                                                         *)
(* Threads of control:                                                     *)
(*   - callers of Executor.start (atomic under Executor._lock),            *)
(*   - one caller of Executor.stop (several steps under Executor._lock,    *)
(*     then the joins outside it),                                         *)
(*   - callers of Executor.dispatch (an unlocked read of _running, then    *)
(*     TaskQueue.put),                                                     *)
(*   - one thread per _Worker (_run / _execute_task / TaskQueue.get),      *)
(*   - the scheduler thread running _Worker._discard callbacks.            *)
(***************************************************************************)
EXTENDS Integers, Sequences, FiniteSets, TLC

\* Largest workers_count an Executor is constructed with.
MaxWorkersCount == 2
\* Largest max_tasks an Executor is constructed with.
MaxMaxTasks == 2
\* Number of dispatch() calls made by the callers.
MaxDispatch == 2
\* Number of start() calls made by the callers.
MaxStartCalls == 2
\* Number of stop() calls made by the callers.
MaxStopCalls == 1

\* Cap of Executor._worker_id: the number of workers ever created.
MaxWorkerId == 3

WorkerIds == 0 .. (MaxWorkerId - 1)
TaskIds == 1 .. MaxDispatch

VARIABLES
    workers_count,  \* Executor._workers_count
    max_tasks,      \* TaskQueue._max_tasks
    running,        \* Executor._running
    worker_id,      \* Executor._worker_id
    workers,        \* Executor._workers
    lock,           \* holder of Executor._lock: "free" or "stop"
    tasks,          \* TaskQueue._tasks
    waiters,        \* threads blocked in TaskQueue._cond.wait()
    wpc,            \* _Worker thread: position in _run/_execute_task/get
    discarded,      \* _Worker._discarded
    wtask,          \* the Task a worker holds (local `task`)
    timer,          \* the worker's handle `discard`: none/armed/cancelled/fired
    sched,          \* scheduler thread: the _discard callback it is running
    calls,          \* dispatch() calls: position, Task timeout, outcome
    ndispatch,      \* number of dispatch() calls begun
    spc,            \* stop() caller: position in stop
    si,             \* stop(): sentinels put so far in the loop of line 82
    swait,          \* stop(): the `wait` argument
    joinset,        \* stop(): the tuple `workers` of line 84
    stopResult,     \* outcome of the last stop() call
    nstop,          \* number of stop() calls begun
    nstart,         \* number of start() calls made
    startResult,    \* outcome of the last start() call
    nput,           \* number of successful TaskQueue.put calls
    gots,           \* items returned by TaskQueue.get, in order of removal
    cleared,        \* put numbers of the items removed by TaskQueue.clear
    asserted,       \* _discard raised AssertionError
    keyError,       \* _worker_stopped raised KeyError
    lifecycle,      \* what the callers have done last: new/started/stopping/stopped/failed
    replaced,       \* for each worker, the worker _worker_discarded added for it
    raised          \* for each worker, whether a callable it ran has raised

vars == <<workers_count, max_tasks, running, worker_id, workers, lock, tasks,
          waiters, wpc, discarded, wtask, timer, sched, calls, ndispatch,
          spc, si, swait, joinset, stopResult, nstop, nstart, startResult,
          nput, gots, cleared, asserted, keyError, lifecycle, replaced,
          raised>>

\* A queue item: Task(callable, timeout) or _STOP, tagged with the number n
\* of the put that enqueued it (n is bookkeeping, no code reads it).
Task(id, timeout, n) == [id |-> id, timeout |-> timeout, n |-> n]
\* The sentinel object _STOP, as the id of the queue item that holds it.
_STOP == 0
NoTask == [id |-> -1, timeout |-> FALSE, n |-> 0]
IsStop(item) == item.id = _STOP
IsTask(item) == item.id \in TaskIds

NoCall == [pc |-> "new", timeout |-> FALSE, res |-> "none"]
SchedIdle == [w |-> -1, pc |-> "idle"]
NoWorker == -1

Init ==
    /\ workers_count \in 1 .. MaxWorkersCount
    /\ max_tasks \in 1 .. MaxMaxTasks
    /\ running = FALSE
    /\ worker_id = 0
    /\ workers = {}
    /\ lock = "free"
    /\ tasks = << >>
    /\ waiters = << >>
    /\ wpc = [w \in WorkerIds |-> "unborn"]
    /\ discarded = [w \in WorkerIds |-> FALSE]
    /\ wtask = [w \in WorkerIds |-> NoTask]
    /\ timer = [w \in WorkerIds |-> "none"]
    /\ sched = SchedIdle
    /\ calls = [c \in TaskIds |-> NoCall]
    /\ ndispatch = 0
    /\ spc = "idle"
    /\ si = 0
    /\ swait = FALSE
    /\ joinset = {}
    /\ stopResult = "none"
    /\ nstop = 0
    /\ nstart = 0
    /\ startResult = "none"
    /\ nput = 0
    /\ gots = << >>
    /\ cleared = {}
    /\ asserted = FALSE
    /\ keyError = FALSE
    /\ lifecycle = "new"
    /\ replaced = [w \in WorkerIds |-> NoWorker]
    /\ raised = [w \in WorkerIds |-> FALSE]

(***************************************************************************)
(* TaskQueue                                                               *)
(***************************************************************************)

\* Variant of QueueFull that lets one item too many in.
QueueFullOffByOne == Len(tasks) > max_tasks

\* TaskQueue.put, line 255: the test that raises TooManyTasks.
QueueFull == Len(tasks) = max_tasks

\* Variant of notify that wakes no thread.
notifyNobody == UNCHANGED <<waiters, wpc>>

\* Condition.notify of line 258: the longest-waiting thread, if any, leaves
\* wait() and goes back to the popleft of line 266.
notify ==
    IF waiters = << >>
    THEN UNCHANGED <<waiters, wpc>>
    ELSE /\ waiters' = Tail(waiters)
         /\ wpc' = [wpc EXCEPT ![Head(waiters)] = "pop"]

\* Variant of put that, on a full queue, drops the oldest item to make room.
putDroppingOldest(id, timeout) ==
    /\ tasks' = Append(IF QueueFull THEN Tail(tasks) ELSE tasks,
                       Task(id, timeout, nput + 1))
    /\ nput' = nput + 1
    /\ notify

\* TaskQueue.put, the whole body under _cond.  The popleft of get is not
\* under _cond, but it only shortens the deque, so it commutes with the
\* test-then-append done here.
put(id, timeout) ==
    IF QueueFull
    THEN UNCHANGED <<tasks, waiters, wpc, nput>>
    ELSE /\ tasks' = Append(tasks, Task(id, timeout, nput + 1))
         /\ nput' = nput + 1
         /\ notify

\* Variant of popleft that takes the newest item (deque.pop).
popright == [item |-> tasks[Len(tasks)],
             rest |-> SubSeq(tasks, 1, Len(tasks) - 1)]

\* deque.popleft of line 266 on a non-empty deque: the item and what is left.
popleft == [item |-> Head(tasks), rest |-> Tail(tasks)]

\* TaskQueue.clear.
clear ==
    /\ tasks' = << >>
    /\ cleared' = cleared \cup {tasks[i].n : i \in 1 .. Len(tasks)}

(***************************************************************************)
(* Executor                                                                *)
(***************************************************************************)

\* Executor._add_worker called k times in a row under Executor._lock: each
\* call takes the next worker id, builds the _Worker (whose thread starts at
\* once, in TaskQueue.get) and adds it to the live set.
AddWorkers(k) ==
    LET new == worker_id .. (worker_id + k - 1) IN
    /\ worker_id' = worker_id + k
    /\ workers' = workers \cup new
    /\ wpc' = [w \in WorkerIds |-> IF w \in new THEN "pop" ELSE wpc[w]]

\* Variant of AlreadyRunning: start does not look at _running.
AlreadyRunningUnchecked == FALSE

\* Executor.start, line 71: the test that raises AlreadyStarted.
AlreadyRunning == running

\* Executor.start.  The whole body runs under Executor._lock; the threads
\* that do not take the lock (dispatch, workers) only see _running and the
\* new workers, which they may as well see after the lock is released.
Start ==
    /\ nstart < MaxStartCalls
    /\ lock = "free"
    \* (the callers make no start() that would take _worker_id past its cap)
    /\ AlreadyRunning \/ worker_id + workers_count <= MaxWorkerId
    /\ nstart' = nstart + 1
    /\ IF AlreadyRunning
       THEN /\ startResult' = "AlreadyStarted"
            /\ UNCHANGED <<running, worker_id, workers, wpc, lifecycle>>
       ELSE /\ startResult' = "ok"
            /\ lifecycle' = "started"
            /\ running' = TRUE
            /\ AddWorkers(workers_count)
    /\ UNCHANGED <<workers_count, max_tasks, lock, tasks, waiters, discarded,
                   wtask, timer, sched, calls, ndispatch, spc, si, swait,
                   joinset, stopResult, nstop, nput, gots, cleared, asserted,
                   keyError, replaced, raised>>

\* Variant of StopBegin that forgets to clear _running.
StopBeginKeepsRunning ==
    /\ spc = "idle"
    /\ nstop < MaxStopCalls
    /\ lock = "free"
    /\ lock' = "stop"
    /\ UNCHANGED running
    /\ swait' \in BOOLEAN
    /\ si' = 0
    /\ spc' = "clear"
    /\ stopResult' = "none"
    /\ nstop' = nstop + 1
    /\ lifecycle' = "stopping"
    /\ UNCHANGED <<workers_count, max_tasks, worker_id, workers, tasks,
                   waiters, wpc, discarded, wtask, timer, sched, calls,
                   ndispatch, joinset, nstart, startResult, nput, gots,
                   cleared, asserted, keyError, replaced, raised>>

\* Executor.stop, lines 79-80: take the lock, clear _running.
StopBegin ==
    /\ spc = "idle"
    /\ nstop < MaxStopCalls
    /\ lock = "free"
    /\ lock' = "stop"
    /\ running' = FALSE
    /\ swait' \in BOOLEAN
    /\ si' = 0
    /\ spc' = "clear"
    /\ stopResult' = "none"
    /\ nstop' = nstop + 1
    /\ lifecycle' = "stopping"
    /\ UNCHANGED <<workers_count, max_tasks, worker_id, workers, tasks,
                   waiters, wpc, discarded, wtask, timer, sched, calls,
                   ndispatch, joinset, nstart, startResult, nput, gots,
                   cleared, asserted, keyError, replaced, raised>>

\* Executor.stop, line 81.
StopClear ==
    /\ spc = "clear"
    /\ clear
    /\ spc' = "put"
    /\ UNCHANGED <<workers_count, max_tasks, running, worker_id, workers,
                   lock, waiters, wpc, discarded, wtask, timer, sched, calls,
                   ndispatch, si, swait, joinset, stopResult, nstop, nstart,
                   startResult, nput, gots, asserted, keyError, lifecycle, replaced, raised>>

\* Executor.stop, lines 82-83: one iteration of the loop.  TooManyTasks
\* raised by put leaves the `with` block (releasing the lock) and stop.
StopPut ==
    /\ spc = "put"
    /\ put(_STOP, FALSE)
    /\ IF QueueFull
       THEN /\ spc' = "idle"
            /\ lock' = "free"
            /\ stopResult' = "TooManyTasks"
            /\ lifecycle' = IF lifecycle = "stopping" THEN "failed" ELSE lifecycle
            /\ UNCHANGED si
       ELSE /\ si' = si + 1
            /\ spc' = IF si + 1 = workers_count THEN "snapshot" ELSE "put"
            /\ UNCHANGED <<lock, stopResult, lifecycle>>
    /\ UNCHANGED <<workers_count, max_tasks, running, worker_id, workers,
                   discarded, wtask, timer, sched, calls, ndispatch, swait,
                   joinset, nstop, nstart, startResult, gots, cleared,
                   asserted, keyError, replaced, raised>>

\* Executor.stop, line 84 and the end of the `with` block.
StopSnapshot ==
    /\ spc = "snapshot"
    /\ joinset' = IF swait THEN workers ELSE {}
    /\ lock' = "free"
    /\ spc' = "join"
    /\ UNCHANGED <<workers_count, max_tasks, running, worker_id, workers,
                   tasks, waiters, wpc, discarded, wtask, timer, sched, calls,
                   ndispatch, si, swait, stopResult, nstop, nstart,
                   startResult, nput, gots, cleared, asserted, keyError, lifecycle, replaced, raised>>

\* Executor.stop, lines 85-86: the joins return once every thread of the
\* tuple has exited; then stop returns.
StopJoin ==
    /\ spc = "join"
    /\ \A w \in joinset : wpc[w] = "exited"
    /\ spc' = "idle"
    /\ stopResult' = "returned"
    /\ joinset' = {}
    /\ lifecycle' = IF lifecycle = "stopping" THEN "stopped" ELSE lifecycle
    /\ UNCHANGED <<workers_count, max_tasks, running, worker_id, workers,
                   lock, tasks, waiters, wpc, discarded, wtask, timer, sched,
                   calls, ndispatch, si, swait, nstop, nstart, startResult,
                   nput, gots, cleared, asserted, keyError, replaced, raised>>

\* Variant of NotRunning: dispatch only refuses before the first start.
NotRunningBeforeStartOnly == ~running /\ worker_id = 0

\* Executor.dispatch, line 99: the test that raises NotRunning.
NotRunning == ~running

\* Executor.dispatch, lines 99-100: the unlocked read of _running.
DispatchCheck(timeout) ==
    /\ ndispatch < MaxDispatch
    /\ ndispatch' = ndispatch + 1
    /\ calls' = [calls EXCEPT ![ndispatch + 1] =
                    IF NotRunning
                    THEN [pc |-> "done", timeout |-> timeout, res |-> "NotRunning"]
                    ELSE [pc |-> "put", timeout |-> timeout, res |-> "none"]]
    /\ UNCHANGED <<workers_count, max_tasks, running, worker_id, workers,
                   lock, tasks, waiters, wpc, discarded, wtask, timer, sched,
                   spc, si, swait, joinset, stopResult, nstop, nstart,
                   startResult, nput, gots, cleared, asserted, keyError, lifecycle, replaced, raised>>

\* Executor.dispatch, line 101: TaskQueue.put of the new Task.
DispatchPut(c) ==
    /\ calls[c].pc = "put"
    /\ put(c, calls[c].timeout)
    /\ calls' = [calls EXCEPT ![c].pc = "done",
                              ![c].res = IF QueueFull THEN "TooManyTasks" ELSE "ok"]
    /\ UNCHANGED <<workers_count, max_tasks, running, worker_id, workers,
                   lock, discarded, wtask, timer, sched, ndispatch, spc, si,
                   swait, joinset, stopResult, nstop, nstart, startResult,
                   gots, cleared, asserted, keyError, lifecycle, replaced, raised>>

\* Variant of WorkerDiscardedNotify that adds a worker without looking at
\* _running.
WorkerDiscardedAlwaysAdds == AddWorkers(1)

\* Variant of WorkerDiscardedNotify that adds no replacement worker.
WorkerDiscardedNoReplacement == UNCHANGED <<worker_id, workers, wpc>>

\* Executor._worker_discarded, lines 110-112 (the rest only logs).
WorkerDiscardedNotify ==
    IF running
    THEN AddWorkers(1)
    ELSE UNCHANGED <<worker_id, workers, wpc>>

(***************************************************************************)
(* _Worker                                                                 *)
(***************************************************************************)

\* TaskQueue.get, line 266, then Executor._next_task lines 131-133 and
\* _Worker._execute_task lines 188-189.  An empty deque raises IndexError
\* and the thread goes on to line 268.  _STOP raises NotRunning, which
\* leaves the loop of _run for its `finally`.  A Task is held, and its timer
\* armed when it carries a timeout; the callable is then running.
WorkerPop(w) ==
    /\ wpc[w] = "pop"
    /\ IF tasks = << >>
       THEN /\ wpc' = [wpc EXCEPT ![w] = "check"]
            /\ UNCHANGED <<tasks, gots, wtask, timer>>
       ELSE /\ tasks' = popleft.rest
            /\ gots' = Append(gots, popleft.item)
            /\ IF IsStop(popleft.item)
               THEN /\ wpc' = [wpc EXCEPT ![w] = "stopped"]
                    /\ UNCHANGED <<wtask, timer>>
               ELSE /\ wpc' = [wpc EXCEPT ![w] = "run"]
                    /\ wtask' = [wtask EXCEPT ![w] = popleft.item]
                    /\ timer' = [timer EXCEPT ![w] =
                           IF popleft.item.timeout THEN "armed" ELSE "none"]
    /\ UNCHANGED <<workers_count, max_tasks, running, worker_id, workers,
                   lock, waiters, discarded, sched, calls, ndispatch, spc, si,
                   swait, joinset, stopResult, nstop, nstart, startResult,
                   nput, cleared, asserted, keyError, lifecycle, replaced, raised>>

\* TaskQueue.get, lines 268-270: under _cond, wait if the deque is (still)
\* empty, otherwise go round the loop.
WorkerCheck(w) ==
    /\ wpc[w] = "check"
    /\ IF tasks = << >>
       THEN /\ wpc' = [wpc EXCEPT ![w] = "waiting"]
            /\ waiters' = Append(waiters, w)
       ELSE /\ wpc' = [wpc EXCEPT ![w] = "pop"]
            /\ UNCHANGED waiters
    /\ UNCHANGED <<workers_count, max_tasks, running, worker_id, workers,
                   lock, tasks, discarded, wtask, timer, sched, calls,
                   ndispatch, spc, si, swait, joinset, stopResult, nstop,
                   nstart, startResult, nput, gots, cleared, asserted,
                   keyError, lifecycle, replaced, raised>>

\* _execute_task, line 191: the callable returns.
CallableReturns(w) ==
    /\ wpc[w] = "run"
    /\ wpc' = [wpc EXCEPT ![w] = "finally"]
    /\ UNCHANGED <<workers_count, max_tasks, running, worker_id, workers,
                   lock, tasks, waiters, discarded, wtask, timer, sched,
                   calls, ndispatch, spc, si, swait, joinset, stopResult,
                   nstop, nstart, startResult, nput, gots, cleared, asserted,
                   keyError, lifecycle, replaced, raised>>

\* _execute_task, lines 191-192: the callable raises an Exception.
CallableRaises(w) ==
    /\ wpc[w] = "run"
    /\ wpc' = [wpc EXCEPT ![w] = "except"]
    /\ raised' = [raised EXCEPT ![w] = TRUE]
    /\ UNCHANGED <<workers_count, max_tasks, running, worker_id, workers,
                   lock, tasks, waiters, discarded, wtask, timer, sched,
                   calls, ndispatch, spc, si, swait, joinset, stopResult,
                   nstop, nstart, startResult, nput, gots, cleared, asserted,
                   keyError, lifecycle, replaced>>

\* Variant of WorkerLogException: the exception escapes the loop of _run.
WorkerLogExceptionEscapes(w) ==
    /\ wpc[w] = "except"
    /\ wpc' = [wpc EXCEPT ![w] = "stopped"]
    /\ UNCHANGED <<workers_count, max_tasks, running, worker_id, workers,
                   lock, tasks, waiters, discarded, wtask, timer, sched,
                   calls, ndispatch, spc, si, swait, joinset, stopResult,
                   nstop, nstart, startResult, nput, gots, cleared, asserted,
                   keyError, lifecycle, replaced, raised>>

\* _execute_task, line 193: the exception is logged and goes no further.
WorkerLogException(w) ==
    /\ wpc[w] = "except"
    /\ wpc' = [wpc EXCEPT ![w] = "finally"]
    /\ UNCHANGED <<workers_count, max_tasks, running, worker_id, workers,
                   lock, tasks, waiters, discarded, wtask, timer, sched,
                   calls, ndispatch, spc, si, swait, joinset, stopResult,
                   nstop, nstart, startResult, nput, gots, cleared, asserted,
                   keyError, lifecycle, replaced, raised>>

\* Variant of WorkerCancel that leaves the timer as it is.
WorkerCancelSkipped(w) ==
    /\ wpc[w] = "finally"
    /\ wpc' = [wpc EXCEPT ![w] = "chk"]
    /\ wtask' = [wtask EXCEPT ![w] = NoTask]
    /\ UNCHANGED <<workers_count, max_tasks, running, worker_id, workers,
                   lock, tasks, waiters, discarded, timer, sched, calls,
                   ndispatch, spc, si, swait, joinset, stopResult, nstop,
                   nstart, startResult, nput, gots, cleared, asserted,
                   keyError, lifecycle, replaced, raised>>

\* _execute_task, lines 195-202: forget the Task, cancel the timer if one
\* was armed.  cancel() stops a timer that has not fired and does nothing to
\* one whose callback has been called.
WorkerCancel(w) ==
    /\ wpc[w] = "finally"
    /\ wpc' = [wpc EXCEPT ![w] = "chk"]
    /\ wtask' = [wtask EXCEPT ![w] = NoTask]
    /\ timer' = [timer EXCEPT ![w] =
                    IF timer[w] = "armed" THEN "cancelled" ELSE timer[w]]
    /\ UNCHANGED <<workers_count, max_tasks, running, worker_id, workers,
                   lock, tasks, waiters, discarded, sched, calls, ndispatch,
                   spc, si, swait, joinset, stopResult, nstop, nstart,
                   startResult, nput, gots, cleared, asserted, keyError, lifecycle, replaced, raised>>

\* _execute_task, line 203: the test that raises _WorkerDiscarded.
SeesDiscarded(w) == discarded[w]

\* _execute_task, lines 203-204, and the loop of _run, lines 177-182:
\* _WorkerDiscarded leaves the loop for the `finally` of _run; otherwise the
\* worker calls _execute_task again.
WorkerCheckDiscarded(w) ==
    /\ wpc[w] = "chk"
    /\ wpc' = [wpc EXCEPT ![w] = IF SeesDiscarded(w) THEN "stopped" ELSE "pop"]
    /\ timer' = [timer EXCEPT ![w] = "none"]
    /\ UNCHANGED <<workers_count, max_tasks, running, worker_id, workers,
                   lock, tasks, waiters, discarded, wtask, sched, calls,
                   ndispatch, spc, si, swait, joinset, stopResult, nstop,
                   nstart, startResult, nput, gots, cleared, asserted,
                   keyError, lifecycle, replaced, raised>>

\* Variant of WorkerStopped that leaves the worker in the live set.
WorkerStoppedKeepsInSet(w) ==
    /\ wpc[w] = "stopped"
    /\ lock = "free"
    /\ wpc' = [wpc EXCEPT ![w] = "exited"]
    /\ UNCHANGED <<workers_count, max_tasks, running, worker_id, workers,
                   lock, tasks, waiters, discarded, wtask, timer, sched,
                   calls, ndispatch, spc, si, swait, joinset, stopResult,
                   nstop, nstart, startResult, nput, gots, cleared, asserted,
                   keyError, lifecycle, replaced, raised>>

\* _run, line 184, and Executor._worker_stopped: under Executor._lock the
\* worker leaves the live set (set.remove raises KeyError when it is not
\* there); then the thread ends.
WorkerStopped(w) ==
    /\ wpc[w] = "stopped"
    /\ lock = "free"
    /\ wpc' = [wpc EXCEPT ![w] = "exited"]
    /\ IF w \in workers
       THEN workers' = workers \ {w} /\ UNCHANGED keyError
       ELSE keyError' = TRUE /\ UNCHANGED workers
    /\ UNCHANGED <<workers_count, max_tasks, running, worker_id, lock, tasks,
                   waiters, discarded, wtask, timer, sched, calls, ndispatch,
                   spc, si, swait, joinset, stopResult, nstop, nstart,
                   startResult, nput, gots, cleared, asserted, lifecycle, replaced, raised>>

(***************************************************************************)
(* Scheduler thread                                                        *)
(***************************************************************************)

\* The timeout of an armed timer elapses: the scheduler calls the callback
\* _Worker._discard.  From here on cancel() has no effect on this call.
TimerFire(w) ==
    /\ timer[w] = "armed"
    /\ sched = SchedIdle
    /\ timer' = [timer EXCEPT ![w] = "fired"]
    /\ sched' = [w |-> w, pc |-> "discard"]
    /\ UNCHANGED <<workers_count, max_tasks, running, worker_id, workers,
                   lock, tasks, waiters, wpc, discarded, wtask, calls,
                   ndispatch, spc, si, swait, joinset, stopResult, nstop,
                   nstart, startResult, nput, gots, cleared, asserted,
                   keyError, lifecycle, replaced, raised>>

\* _Worker._discard, lines 212-215.  Only this thread writes _discarded, so
\* the test and the assignment are one step.
TimerDiscard ==
    /\ sched.pc = "discard"
    /\ IF discarded[sched.w]
       THEN /\ asserted' = TRUE
            /\ sched' = SchedIdle
            /\ UNCHANGED discarded
       ELSE /\ discarded' = [discarded EXCEPT ![sched.w] = TRUE]
            /\ sched' = [sched EXCEPT !.pc = "notify"]
            /\ UNCHANGED asserted
    /\ UNCHANGED <<workers_count, max_tasks, running, worker_id, workers,
                   lock, tasks, waiters, wpc, wtask, timer, calls, ndispatch,
                   spc, si, swait, joinset, stopResult, nstop, nstart,
                   startResult, nput, gots, cleared, keyError, lifecycle, replaced, raised>>

\* _Worker._discard, line 216: Executor._worker_discarded under the lock.
\* `replaced` remembers which worker, if any, was added for the one discarded.
TimerNotify ==
    /\ sched.pc = "notify"
    /\ lock = "free"
    \* (_worker_id is capped: the callback waits here once the cap is reached)
    /\ running => worker_id < MaxWorkerId
    /\ WorkerDiscardedNotify
    /\ replaced' = [replaced EXCEPT ![sched.w] = IF running THEN worker_id ELSE @]
    /\ sched' = SchedIdle
    /\ UNCHANGED <<workers_count, max_tasks, running, lock, tasks, waiters,
                   discarded, wtask, timer, calls, ndispatch, spc, si, swait,
                   joinset, stopResult, nstop, nstart, startResult, nput,
                   gots, cleared, asserted, keyError, lifecycle, raised>>

Next ==
    \/ Start
    \/ StopBegin
    \/ StopClear
    \/ StopPut
    \/ StopSnapshot
    \/ StopJoin
    \/ \E timeout \in BOOLEAN : DispatchCheck(timeout)
    \/ \E c \in TaskIds : DispatchPut(c)
    \/ \E w \in WorkerIds : WorkerPop(w)
    \/ \E w \in WorkerIds : WorkerCheck(w)
    \/ \E w \in WorkerIds : CallableReturns(w)
    \/ \E w \in WorkerIds : CallableRaises(w)
    \/ \E w \in WorkerIds : WorkerLogException(w)
    \/ \E w \in WorkerIds : WorkerCancel(w)
    \/ \E w \in WorkerIds : WorkerCheckDiscarded(w)
    \/ \E w \in WorkerIds : WorkerStopped(w)
    \/ \E w \in WorkerIds : TimerFire(w)
    \/ TimerDiscard
    \/ TimerNotify

Spec == Init /\ [][Next]_vars

\* The threads of the program keep running: a worker thread, the scheduler
\* thread inside a callback, the stop() caller and a dispatch() caller each
\* take their next step when they can.  Nothing is assumed of the callers'
\* decisions to call start, stop or dispatch, of the time a callable takes,
\* or of the time a timer takes to fire.
ThreadsProgress ==
    /\ \A w \in WorkerIds :
          /\ WF_vars(WorkerPop(w))
          /\ WF_vars(WorkerCheck(w))
          /\ WF_vars(WorkerLogException(w))
          /\ WF_vars(WorkerCancel(w))
          /\ WF_vars(WorkerCheckDiscarded(w))
          /\ WF_vars(WorkerStopped(w))
    /\ WF_vars(TimerDiscard)
    /\ WF_vars(TimerNotify)
    /\ WF_vars(StopClear)
    /\ WF_vars(StopPut)
    /\ WF_vars(StopSnapshot)
    /\ WF_vars(StopJoin)
    /\ \A c \in TaskIds : WF_vars(DispatchPut(c))

\* The smallest pool: one worker, max_tasks = 1.
InitMinimal == Init /\ workers_count = 1 /\ max_tasks = 1

\* The smallest pool, with threads that keep running and callables that all
\* end (by returning or by raising).
FairSpec ==
    /\ InitMinimal
    /\ [][Next]_vars
    /\ ThreadsProgress
    /\ \A w \in WorkerIds : WF_vars(CallableReturns(w) \/ CallableRaises(w))

\* The smallest pool, with threads that keep running; a callable dispatched
\* without a timeout ends, one dispatched with a timeout may block for ever,
\* and the timer of a callable that stays blocked fires.
LiveSpec ==
    /\ InitMinimal
    /\ [][Next]_vars
    /\ ThreadsProgress
    /\ \A w \in WorkerIds :
          /\ WF_vars(TimerFire(w))
          /\ WF_vars(~wtask[w].timeout /\ (CallableReturns(w) \/ CallableRaises(w)))

\* The types of the state.
TypeOK ==
    /\ worker_id \in 0 .. MaxWorkerId
    /\ workers \subseteq 0 .. (worker_id - 1)
    /\ lock \in {"free", "stop"}
    /\ \A w \in WorkerIds : wpc[w] = "unborn" <=> w >= worker_id

(***************************************************************************)
(* Properties                                                              *)
(***************************************************************************)

InQueue(c) == \E i \in 1 .. Len(tasks) : tasks[i].id = c

\* C1: in every reachable state the queue holds at most max_tasks items,
\* Tasks and stop sentinels counted alike.
C1_QueueNeverExceedsMaxTasks == Len(tasks) <= max_tasks

\* C1 witness: a full queue of two items, one a Task and one a sentinel.
C1_Witness ==
    /\ max_tasks = 2
    /\ Len(tasks) = max_tasks
    /\ \E i, j \in 1 .. Len(tasks) : IsTask(tasks[i]) /\ IsStop(tasks[j])

\* C2: the put of a dispatch is never blocked; on a full queue it fails with
\* TooManyTasks and leaves the queue, the running flag and the live set as
\* they were; otherwise it succeeds and appends exactly its Task at the tail.
C2_DispatchPutFullOrAppends ==
    /\ [](\A c \in TaskIds : calls[c].pc = "put" => ENABLED DispatchPut(c))
    /\ [][\A c \in TaskIds :
            (calls[c].pc = "put" /\ calls'[c].pc = "done") =>
                IF Len(tasks) = max_tasks
                THEN /\ calls'[c].res = "TooManyTasks"
                     /\ tasks' = tasks
                     /\ running' = running
                     /\ workers' = workers
                ELSE /\ calls'[c].res = "ok"
                     /\ Len(tasks') = Len(tasks) + 1
                     /\ SubSeq(tasks', 1, Len(tasks)) = tasks
                     /\ tasks'[Len(tasks')].id = c
                     /\ tasks'[Len(tasks')].timeout = calls[c].timeout]_vars

\* C2 witness: one dispatch was refused with TooManyTasks while the Task of
\* another, accepted one, is in the queue.
C2_Witness ==
    \E c, d \in TaskIds :
        /\ calls[c].res = "TooManyTasks"
        /\ calls[d].res = "ok"
        /\ InQueue(d)

Executing(c) == \E w \in WorkerIds : wpc[w] = "run" /\ wtask[w].id = c

\* C3: while no stop() has been called, (a) a worker whose timed callable
\* stays blocked with the timer armed is given a replacement, and (b) every
\* Task in the queue is eventually dequeued and run by some worker, whether
\* or not the blocked callables ever return.
C3_StuckTimedTaskDoesNotStallPool ==
    /\ \A w \in WorkerIds :
          (wpc[w] = "run" /\ timer[w] = "armed" /\ nstop = 0) ~>
              (wpc[w] # "run" \/ replaced[w] # NoWorker \/ nstop > 0)
    /\ \A c \in TaskIds :
          (InQueue(c) /\ nstop = 0) ~> (Executing(c) \/ nstop > 0)

\* C3 witness: in the pool of one worker, the worker is still blocked in a
\* timed callable, its timer has fired, and the worker added in its place
\* runs a Task that was dispatched later.
C3_Witness ==
    \E w, v \in WorkerIds :
        /\ workers_count = 1 /\ max_tasks = 1 /\ running /\ nstop = 0
        /\ wpc[w] = "run" /\ wtask[w].timeout /\ discarded[w]
        /\ replaced[w] = v
        /\ wpc[v] = "run" /\ wtask[v].n > wtask[w].n

\* C4 as stated: a worker whose _discarded flag is set does not go on to
\* fetch from the queue: it makes no popleft and does not enter wait().
C4_DiscardedWorkerNeverFetches ==
    [][\A w \in WorkerIds :
          discarded[w] => ~(wpc[w] \in {"pop", "check"} /\ wpc'[w] # wpc[w])]_vars

\* C5 as stated: when every callable ends, a stop(wait=true) called on a
\* started executor returns, all the workers of its snapshot having exited.
\* The cases left out here are a stop() that raises TooManyTasks and a
\* start() made after this stop() began.
C5_StopWaitReturns ==
    (spc = "clear" /\ swait /\ worker_id > 0) ~>
        \/ /\ spc = "idle"
           /\ stopResult = "returned"
        \/ stopResult = "TooManyTasks"
        \/ lifecycle = "started"

\* C6 as stated: once stop() has been called on an executor that was
\* started, _running is false in every later state (no restart).
C6_NoRestartAfterStop == [][(nstart > 0 /\ nstop > 0) => ~running']_vars

\* C6 amended: _running is false until the first start(); it goes from
\* false to true only by a start() that succeeds and adds workers_count
\* workers, and every start() that finds it false does so, also after a
\* stop(); it goes from true to false only by stop(), and every stop()
\* leaves it false.
C6_RunningChangesOnlyByStartAndStop ==
    /\ [](nstart = 0 => ~running)
    /\ [][/\ (~running /\ running') =>
                /\ nstart' = nstart + 1
                /\ startResult' = "ok"
                /\ worker_id' = worker_id + workers_count
          /\ (nstart' = nstart + 1 /\ ~running) => running'
          /\ (running /\ ~running') => nstop' = nstop + 1
          /\ (nstop' = nstop + 1) => ~running']_vars

\* C6 witness: stop() has returned and a second start() has succeeded: the
\* executor is running again, with a second set of workers.
C6_Witness ==
    /\ nstart = 2
    /\ startResult = "ok"
    /\ stopResult = "returned"
    /\ lifecycle = "started"
    /\ running
    /\ worker_id = 2 * workers_count

\* C7: a dispatch called before any start(), or after stop() has returned
\* (and no start() since that stop began), raises NotRunning and leaves the
\* queue as it was.
C7_DispatchWhenNotRunningRaises ==
    [][(ndispatch' = ndispatch + 1 /\ lifecycle \in {"new", "stopped"}) =>
            /\ calls'[ndispatch + 1].pc = "done"
            /\ calls'[ndispatch + 1].res = "NotRunning"
            /\ tasks' = tasks]_vars

\* C7 witness: both cases have happened, a dispatch refused before start()
\* and another refused after a stop() that followed a start() had returned.
C7_Witness ==
    /\ lifecycle = "stopped"
    /\ nstart = 1
    /\ startResult = "ok"
    /\ calls[1].res = "NotRunning"
    /\ calls[2].res = "NotRunning"
    /\ worker_id > 0

\* C8 as stated: once stop(wait=true) has returned (and no start() since),
\* the queue holds no Task, only sentinels if anything.
C8_NoTaskAfterStopReturned ==
    (lifecycle = "stopped" /\ swait) =>
        \A i \in 1 .. Len(tasks) : IsStop(tasks[i])

\* C9: a start() on a running executor raises AlreadyStarted and leaves the
\* running flag, the live set, the worker id counter and every worker as
\* they were; a start() succeeds only on an executor that is not running.
C9_StartWhileRunningRaises ==
    [][/\ (nstart' = nstart + 1 /\ running) =>
                /\ startResult' = "AlreadyStarted"
                /\ running'
                /\ workers' = workers
                /\ worker_id' = worker_id
                /\ wpc' = wpc
       /\ (nstart' = nstart + 1 /\ startResult' = "ok") => ~running]_vars

\* C9 witness: the second of two start() calls in a row was refused.
C9_Witness ==
    /\ nstart = 2
    /\ nstop = 0
    /\ startResult = "AlreadyStarted"
    /\ running
    /\ worker_id = workers_count

\* C10 as stated: the k-th item returned by get is the k-th item put.
C10_GetsArePrefixOfPuts ==
    \A k \in 1 .. Len(gots) : gots[k].n = k

\* C10 amended: get returns items in the order they were put, none twice;
\* the items it skips are exactly those clear() removed before it got there.
C10_GetsInPutOrderButForCleared ==
    /\ \A k \in 2 .. Len(gots) : gots[k - 1].n < gots[k].n
    /\ \A k \in 1 .. Len(gots) :
          /\ gots[k].n \notin cleared
          /\ \A n \in 1 .. (gots[k].n - 1) :
                n \in cleared \/ \E j \in 1 .. (k - 1) : gots[j].n = n

\* C10 witness: two Tasks put one after the other were returned by get in
\* that order, by two different workers.
C10_Witness ==
    /\ Len(gots) >= 2
    /\ IsTask(gots[1]) /\ IsTask(gots[2])
    /\ \E v, w \in WorkerIds : v # w /\ wtask[v] = gots[1] /\ wtask[w] = gots[2]

\* C11 as stated (its last part): while no stop() is called, a worker whose
\* timer fired while its callable was still running exits once the callable
\* has ended, without fetching further work.
C11_OutlastedTaskWorkerExits ==
    \A w \in WorkerIds :
        (wpc[w] = "run" /\ timer[w] = "fired" /\ nstop = 0) ~>
            (wpc[w] = "exited" \/ nstop > 0)

\* C12 as stated: when the callable of a timed Task has ended and the worker
\* has cancelled the timer before it fired, the worker's _discarded flag is
\* false and stays so, no worker is added, and the worker goes back to fetch.
C12_CancelledTimerWorkerFetchesAgain ==
    [][\A w \in WorkerIds :
          (wpc[w] = "chk" /\ timer[w] = "cancelled" /\ wpc'[w] # wpc[w]) =>
              /\ ~discarded[w]
              /\ ~discarded'[w]
              /\ wpc'[w] = "pop"
              /\ workers' = workers]_vars

\* A worker that no timer callback concerns: its flag is not set, it has no
\* timer armed or fired, and the scheduler runs no callback for it.
Undisturbed(w) ==
    /\ ~discarded[w]
    /\ timer[w] \in {"none", "cancelled"}
    /\ sched.w # w

C14_NeverDiscardedTwice == ~asserted

\* C15 as stated: stop() on an executor that was started never fails: none
\* of its puts of the sentinels raises TooManyTasks, whatever workers_count
\* and max_tasks are.
C15_StopNeverRaises ==
    [][(spc = "put" /\ nstart > 0) => stopResult' # "TooManyTasks"]_vars

\* C16: while _running is false no worker is added: the live set does not
\* grow and no worker id is taken; in particular a discard notification
\* handled when _running is false changes neither the live set nor any
\* worker.
C16_NoWorkerAddedWhileNotRunning ==
    [][/\ ~running' => (workers' \subseteq workers /\ worker_id' = worker_id)
       /\ (sched.pc = "notify" /\ sched'.pc = "idle" /\ ~running) =>
              (workers' = workers /\ wpc' = wpc)]_vars

\* C16 witness: after stop() began, the notification of a discarded worker
\* has been handled and no worker was added for it.
C16_Witness ==
    \E w \in WorkerIds :
        /\ discarded[w]
        /\ replaced[w] = NoWorker
        /\ sched = SchedIdle
        /\ ~running
        /\ lifecycle \in {"stopping", "stopped"}

\* No timer callback is in progress and no discarded worker is still
\* finishing its Task (or on its way out).
Quiescent ==
    /\ sched = SchedIdle
    /\ \A w \in WorkerIds :
          /\ wpc[w] # "stopped"
          /\ discarded[w] => wpc[w] \notin {"run", "except", "finally", "chk"}

\* C17 as stated: while the executor runs (started, no stop() called), in
\* every quiescent state the live set has workers_count workers.
C17_QuiescentPoolHasWorkersCount ==
    (running /\ nstop = 0 /\ Quiescent) => Cardinality(workers) = workers_count

\* C18: a worker thread ends only through _worker_stopped, once: the call
\* finds the worker in the live set and removes it (no KeyError), an exited
\* worker stays exited, and no exited worker is in the live set.
C18_WorkerStoppedOnceAndRemoved ==
    /\ [](~keyError /\ \A w \in WorkerIds : wpc[w] = "exited" => w \notin workers)
    /\ [][\A w \in WorkerIds :
            /\ wpc[w] = "exited" => wpc'[w] = "exited"
            /\ (wpc[w] # "exited" /\ wpc'[w] = "exited") =>
                  /\ wpc[w] = "stopped"
                  /\ w \in workers
                  /\ workers' = workers \ {w}]_vars

\* C18 witness: one worker has exited on a stop sentinel and another after
\* being discarded, and neither is in the live set.
C18_Witness ==
    \E v, w \in WorkerIds :
        /\ wpc[v] = "exited" /\ ~discarded[v]
        /\ wpc[w] = "exited" /\ discarded[w]
        /\ \E k \in 1 .. Len(gots) : IsStop(gots[k])
        /\ {v, w} \cap workers = {}

\* The numbers the puts of one run can take.
PutNumbers == 1 .. (MaxDispatch + MaxStopCalls * MaxWorkersCount)

InQueueN(n) == \E i \in 1 .. Len(tasks) : tasks[i].n = n

InGet(w) == wpc[w] \in {"pop", "check", "waiting"}

\* The workers that are in get and not blocked in wait().
Awake == {w \in WorkerIds : wpc[w] \in {"pop", "check"}}

\* C19: no wakeup is lost.  While a worker is blocked in wait(), as many
\* workers are awake in get as there are items in the queue; get returns
\* only the item that was at the head of the queue, and removes it; and an
\* item that is in the queue while some worker is in get eventually leaves
\* the queue (taken by a get, or removed by the clear of stop).
C19_NoLostWakeup ==
    /\ [](waiters # << >> => Len(tasks) <= Cardinality(Awake))
    /\ [][Len(gots') > Len(gots) =>
            /\ tasks # << >>
            /\ gots' = Append(gots, Head(tasks))
            /\ tasks' = Tail(tasks)]_vars
    /\ \A n \in PutNumbers :
          (InQueueN(n) /\ \E w \in WorkerIds : InGet(w)) ~>
              (n \in cleared \/ \E k \in 1 .. Len(gots) : gots[k].n = n)

\* C19 witness: two workers were blocked in wait(); a put has woken the one
\* that waited longest; the item is in the queue and the other still waits.
C19_Witness ==
    \E v, w \in WorkerIds :
        /\ v # w
        /\ wpc[v] = "pop"
        /\ wpc[w] = "waiting"
        /\ waiters = <<w>>
        /\ Len(tasks) = 1
        /\ Awake = {v}

\* C20: a worker has a timer armed only while it holds a Task that carries a
\* timeout (callable running or just ended); a timer is armed only by the
\* fetch of such a Task, the fetch of a Task without timeout arms none, and
\* from the cancel on, until the next fetch, the worker has no timer armed.
C20_TimerArmedOnlyForCurrentTimedTask ==
    /\ [](\A w \in WorkerIds :
            timer[w] = "armed" =>
                (wpc[w] \in {"run", "except", "finally"} /\ wtask[w].timeout))
    /\ [][\A w \in WorkerIds :
            /\ (timer[w] # "armed" /\ timer'[w] = "armed") =>
                  (wpc[w] = "pop" /\ wpc'[w] = "run" /\ wtask'[w].timeout)
            /\ (wpc[w] = "pop" /\ wpc'[w] = "run" /\ ~wtask'[w].timeout) =>
                  timer'[w] = "none"]_vars

\* C20 witness: the only worker runs its second timed Task with the timer
\* armed, having cancelled the timer of the first in time.
C20_Witness ==
    /\ worker_id = 1
    /\ Len(gots) = 2
    /\ gots[1].timeout /\ gots[2].timeout
    /\ wpc[0] = "run" /\ wtask[0] = gots[2]
    /\ timer[0] = "armed"
    /\ ~discarded[0] /\ sched = SchedIdle

====
